---- MODULE Spec2Model ----
(***************************************************************************)
(* A model of workbox-core's DBWrapper (_private/DBWrapper.ts): the        *)
(* promise-based wrapper around one IndexedDB connection.                  *)
(*                                                                         *)
(* Spec     the connection lifecycle: open() attempts with their timers,   *)
(*          close(), versionchange events and the start of store           *)
(*          operations (transaction() up to the native transaction call).  *)
(* SpecTxn  transactions on an open connection: transaction(), _call and   *)
(*          the wrapped native methods, and the cursor scan of             *)
(*          getAllMatching with getAll / getAllKeys / getKey on top.       *)
(***************************************************************************)
EXTENDS Integers, Sequences, FiniteSets, TLC

\* ------------------------------------------------------------------------
\* Bounds
\* ------------------------------------------------------------------------
\* Native open requests (= open attempts, = connections) one run may issue.
MaxAttempts == 2
\* Store operations that may wait between `await this.open()` and the
\* native transaction call at one time.
MaxPending == 1

\* `this._db = null`
Null == 0

VARIABLES
  _db,            \* DBWrapper._db: Null or the id of the connection held
  attempts,       \* the open attempts so far; attempt i produces connection i
  pendingOps,     \* store operations resumed after `await this.open()` whose
                  \* continuation (the native transaction call) has not run yet
  lastTxn,        \* outcome of the latest `this._db.transaction(...)` call
  lastCall,       \* "open" right after an open() call, "close" right after
                  \* a close() call, "versionchange" right after a
                  \* versionchange event, "other" otherwise
  onversionchangeOverride,  \* constructor option onversionchange was supplied
  onupgradeneededSupplied,  \* constructor option onupgradeneeded was supplied
  overrideCalls   \* TRUE once the supplied onversionchange override has run

connVars == <<_db, attempts, pendingOps, lastTxn, lastCall,
              onversionchangeOverride, onupgradeneededSupplied, overrideCalls>>

VARIABLES
  store,          \* committed contents of the object stores, by store name:
                  \* a sequence over the keys, Absent where there is no record
  cur,            \* the latest store operation (call) and its transaction
  prev,           \* the transaction of the call before it, while unfinished
  lastPut         \* history: the latest put that resolved, with no write
                  \* operation issued since

txnVars == <<store, cur, prev, lastPut>>

vars == <<connVars, txnVars>>

\* ------------------------------------------------------------------------
\* open()
\* ------------------------------------------------------------------------
\* resolve / reject of the promise open() awaits.  A promise settles once: on
\* a settled promise they are no-ops.  Settling releases the awaiting caller.
Settle(at, outcome) ==
  IF at.promise = "pending"
    THEN [at EXCEPT !.promise = outcome, !.waiter = "none"]
    ELSE at

OpenReturnsEarlyAlways(db) == FALSE

\* `if (this._db) return;`
OpenReturnsEarly(db) == db # Null

\* The executor of the promise in open(): arms the timer and issues the
\* native open request.  The caller awaiting the promise is "open" for a
\* direct open() call and "op" for the open() awaited by transaction().
NewAttempt(waiter) ==
  [waiter |-> waiter,
   req |-> "pending",               \* the IDBOpenDBRequest
   openRequestTimedOut |-> FALSE,
   upgrade |-> "none",              \* what onupgradeneeded did, if it ran
   promise |-> "pending",           \* the promise open() awaits
   conn |-> "none",                 \* the connection of this request
   closes |-> 0,                    \* native close() calls on it
   handler |-> FALSE,               \* db.onversionchange was attached
   timerFirst |-> FALSE]            \* history: the timer ran while the
                                    \* request was still pending

TimerCallbackNoReject(at) == [at EXCEPT !.openRequestTimedOut = TRUE]

\* The setTimeout callback.
TimerCallback(at) ==
  Settle([at EXCEPT !.openRequestTimedOut = TRUE], "timeout")

OnSuccessKeepsAlways(at) == TRUE

OnSuccessKeepsSharedFlag(at) ==
  \A b \in DOMAIN attempts : ~attempts[b].openRequestTimedOut

\* `if (openRequestTimedOut)` in onsuccess: the connection is kept only when
\* the timer has not run.
OnSuccessKeeps(at) == ~at.openRequestTimedOut

OnUpgradeAbortsNever(at) == FALSE

\* `if (openRequestTimedOut)` in onupgradeneeded.
OnUpgradeAborts(at) == at.openRequestTimedOut

\* Events are tasks: none runs while a resumed continuation is still queued.
NoMicrotask == pendingOps = 0

\* A caller invokes open().
CallOpen ==
  /\ lastCall' = "open"
  /\ IF OpenReturnsEarly(_db)
       THEN UNCHANGED attempts
       ELSE /\ Len(attempts) < MaxAttempts
            /\ attempts' = Append(attempts, NewAttempt("open"))
  /\ UNCHANGED <<_db, pendingOps, lastTxn, onversionchangeOverride,
                 onupgradeneededSupplied, overrideCalls>>
  /\ UNCHANGED txnVars

\* A caller invokes a store operation: transaction() runs up to
\* `await this.open()`.
CallOp ==
  /\ lastCall' = "other"
  /\ IF OpenReturnsEarly(_db)
       THEN /\ pendingOps < MaxPending
            /\ pendingOps' = pendingOps + 1
            /\ UNCHANGED attempts
       ELSE /\ Len(attempts) < MaxAttempts
            /\ attempts' = Append(attempts, NewAttempt("op"))
            /\ UNCHANGED pendingOps
  /\ UNCHANGED <<_db, lastTxn, onversionchangeOverride,
                 onupgradeneededSupplied, overrideCalls>>
  /\ UNCHANGED txnVars

\* `this._db!.transaction(storeNames, type)`: throws a TypeError inside the
\* promise executor when _db is null.
NativeTransaction(db) == IF db = Null THEN "TypeError" ELSE "ok"

\* transaction() resumes after an open() that returned early.
TxnContinue ==
  /\ pendingOps > 0
  /\ pendingOps' = pendingOps - 1
  /\ lastTxn' = NativeTransaction(_db)
  /\ lastCall' = "other"
  /\ UNCHANGED <<_db, attempts, onversionchangeOverride,
                 onupgradeneededSupplied, overrideCalls>>
  /\ UNCHANGED txnVars

\* The timer of attempt a fires.
TimerFires(a) ==
  /\ NoMicrotask
  /\ ~attempts[a].openRequestTimedOut
  /\ attempts' = [attempts EXCEPT ![a] =
                    [TimerCallback(@) EXCEPT
                       !.timerFirst = (attempts[a].req = "pending")]]
  /\ lastCall' = "other"
  /\ UNCHANGED <<_db, pendingOps, lastTxn, onversionchangeOverride,
                 onupgradeneededSupplied, overrideCalls>>
  /\ UNCHANGED txnVars

\* openRequest.onerror
OnError(a) ==
  /\ NoMicrotask
  /\ attempts[a].req = "pending"
  /\ attempts' = [attempts EXCEPT ![a] =
                    Settle([@ EXCEPT !.req = "error"], "error")]
  /\ lastCall' = "other"
  /\ UNCHANGED <<_db, pendingOps, lastTxn, onversionchangeOverride,
                 onupgradeneededSupplied, overrideCalls>>
  /\ UNCHANGED txnVars

\* openRequest.onupgradeneeded
OnUpgradeNeeded(a) ==
  /\ NoMicrotask
  /\ attempts[a].req = "pending"
  /\ attempts[a].upgrade = "none"
  /\ attempts' =
       [attempts EXCEPT ![a] =
          IF OnUpgradeAborts(@)
            THEN [@ EXCEPT !.upgrade = "aborted", !.conn = "closed",
                            !.closes = @ + 1]
            ELSE [@ EXCEPT !.upgrade =
                    IF onupgradeneededSupplied THEN "callback" ELSE "skipped"]]
  /\ lastCall' = "other"
  /\ UNCHANGED <<_db, pendingOps, lastTxn, onversionchangeOverride,
                 onupgradeneededSupplied, overrideCalls>>
  /\ UNCHANGED txnVars

\* openRequest.onsuccess, and, when it resolves, the continuations that run
\* before any other task: `this._db = <db>` in open() and, for a store
\* operation, the native transaction call in transaction().
OnSuccess(a) ==
  /\ NoMicrotask
  /\ attempts[a].req = "pending"
  /\ attempts[a].upgrade # "aborted"
  /\ IF OnSuccessKeeps(attempts[a])
       THEN /\ attempts' = [attempts EXCEPT ![a] =
                              Settle([@ EXCEPT !.req = "success",
                                               !.conn = "open",
                                               !.handler = TRUE],
                                     "resolved")]
            /\ IF attempts[a].promise = "pending"
                 THEN /\ _db' = a
                      /\ lastTxn' = IF attempts[a].waiter = "op"
                                      THEN NativeTransaction(a) ELSE lastTxn
                 ELSE UNCHANGED <<_db, lastTxn>>
       ELSE /\ attempts' = [attempts EXCEPT ![a].req = "success",
                                            ![a].conn = "closed",
                                            ![a].closes = @ + 1]
            /\ UNCHANGED <<_db, lastTxn>>
  /\ lastCall' = "other"
  /\ UNCHANGED <<pendingOps, onversionchangeOverride,
                 onupgradeneededSupplied, overrideCalls>>
  /\ UNCHANGED txnVars

\* ------------------------------------------------------------------------
\* close()
\* ------------------------------------------------------------------------
CloseConnSkipsNative(db, atts) == atts

\* The connections after close(): `this._db.close()` when one is held.
CloseConn(db, atts) ==
  IF db # Null
    THEN [atts EXCEPT ![db].conn = "closed", ![db].closes = @ + 1]
    ELSE atts

\* A caller invokes close().
Close ==
  /\ attempts' = CloseConn(_db, attempts)
  /\ _db' = Null
  /\ lastCall' = "close"
  /\ UNCHANGED <<pendingOps, lastTxn, onversionchangeOverride,
                 onupgradeneededSupplied, overrideCalls>>
  /\ UNCHANGED txnVars

_onversionchangeAlwaysCloses(override) == "close"

\* `this._onversionchange = onversionchange || (() => this.close())`.
_onversionchange(override) == IF override THEN "override" ELSE "close"

\* A versionchange event is delivered to open connection c, whose
\* onversionchange property is the handler chosen by the constructor.
VersionChange(c) ==
  /\ NoMicrotask
  /\ attempts[c].conn = "open"
  /\ attempts[c].handler
  /\ IF _onversionchange(onversionchangeOverride) = "override"
       THEN /\ overrideCalls' = TRUE
            /\ UNCHANGED <<_db, attempts>>
       ELSE /\ attempts' = CloseConn(_db, attempts)
            /\ _db' = Null
            /\ UNCHANGED overrideCalls
  /\ lastCall' = "versionchange"
  /\ UNCHANGED <<pendingOps, lastTxn, onversionchangeOverride,
                 onupgradeneededSupplied>>
  /\ UNCHANGED txnVars

\* ------------------------------------------------------------------------
\* The object stores and the engine's primitives
\* ------------------------------------------------------------------------
\* Keys of the records a store may hold: 1..MaxKey.
MaxKey == 3
\* Keys the single-record operations (get, add, put, delete) are called with.
MaxPointKey == 1
\* Largest `count` argument.
MaxCount == 3
\* Calls of done() the body of a caller's own transaction() makes.
MaxDone == 2

StoreNames == {"books"}
Keys == 1..MaxKey
PointKeys == 1..MaxPointKey

\* No record under a key; keys and values are positive.
Absent == 0
\* `undefined` where a number is expected (a count that was omitted).
Undefined == -1
\* The key of a cursor that has no current record.
UndefinedKey == 0
\* The value records start with, and the value add and put write.
OldValue(k) == 10 + k
NewValue(k) == 20 + k

EmptyContent == [k \in Keys |-> Absent]
Contents == {[k \in Keys |-> IF k \in S THEN OldValue(k) ELSE Absent] :
               S \in SUBSET Keys}

\* A query: null (no constraint) or the key range [lo, hi].
NoQuery == [lo |-> 0, hi |-> 0]
Ranges == {q \in [lo : Keys, hi : Keys] : q.lo <= q.hi}
Queries == {NoQuery} \cup Ranges
Counts == {Undefined} \cup (0..MaxCount)

InRange(k, query) == query = NoQuery \/ (query.lo <= k /\ k <= query.hi)

\* The engine's cursor iteration in direction 'next': the smallest key
\* after `after` that has a record in the range, or UndefinedKey.
NextKey(content, query, after) ==
  LET S == {k \in DOMAIN content :
              content[k] # Absent /\ InRange(k, query) /\ k > after}
  IN IF S = {} THEN UndefinedKey
     ELSE CHOOSE k \in S : \A j \in S : k <= j

\* The engine's native bulk reads: the keys with a record in the range, in
\* ascending order, cut to the first `count` when count is 1 or more.
RECURSIVE KeysFrom(_, _, _)
KeysFrom(content, query, k) ==
  IF k > Len(content) THEN <<>>
  ELSE (IF content[k] # Absent /\ InRange(k, query) THEN <<k>> ELSE <<>>)
       \o KeysFrom(content, query, k + 1)

Take(s, count) ==
  IF count = Undefined \/ count = 0 \/ count >= Len(s) THEN s
  ELSE SubSeq(s, 1, count)

NativeGetAllKeys(content, query, count) ==
  Take(KeysFrom(content, query, 1), count)

NativeGetAll(content, query, count) ==
  LET ks == NativeGetAllKeys(content, query, count)
  IN [i \in 1..Len(ks) |-> content[ks[i]]]

\* ------------------------------------------------------------------------
\* Promises and results
\* ------------------------------------------------------------------------
\* A settled value is undefined, one number, or an array of numbers.
Pending == [state |-> "pending", tag |-> "none", val |-> <<>>, err |-> ""]
ResolvedUndefined ==
  [state |-> "resolved", tag |-> "undefined", val |-> <<>>, err |-> ""]
ResolvedScalar(v) ==
  [state |-> "resolved", tag |-> "scalar", val |-> <<v>>, err |-> ""]
ResolvedArray(a) ==
  [state |-> "resolved", tag |-> "array", val |-> a, err |-> ""]
Rejected(e) == [state |-> "rejected", tag |-> "none", val |-> <<>>, err |-> e]

\* resolve / reject of the promise made in transaction(): the first one wins.
SettleP(promise, outcome) ==
  IF promise.state = "pending" THEN outcome ELSE promise

\* ------------------------------------------------------------------------
\* Method wrapping
\* ------------------------------------------------------------------------
MethodsToWrapPutReadonly ==
  [readonly |-> {"get", "count", "getKey", "getAll", "getAllKeys", "put"},
   readwrite |-> {"add", "clear", "delete"}]

MethodsToWrap ==
  [readonly |-> {"get", "count", "getKey", "getAll", "getAllKeys"},
   readwrite |-> {"add", "put", "clear", "delete"}]

WrappedMethods == MethodsToWrap.readonly \cup MethodsToWrap.readwrite

\* The mode the wrapping loop binds a method to.
ModeOf(method) ==
  CHOOSE mode \in DOMAIN MethodsToWrap : method \in MethodsToWrap[mode]

\* ------------------------------------------------------------------------
\* Calls and their transactions
\* ------------------------------------------------------------------------
\* What appending `cursor` itself to the results stores: a reference to the
\* one cursor object of the request.
CursorObject == -2

NoEvent == [kind |-> "none", outcome |-> Pending]
NoTxn == [active |-> FALSE, name |-> "", working |-> <<>>]
NoPut == [name |-> "", key |-> 0, value |-> 0]

NoCall ==
  [method |-> "none",       \* the DBWrapper method the caller invoked
   native |-> FALSE,        \* it is the wrapper around the native method
   primitive |-> "",        \* the native primitive _call invokes, if any
   scan |-> FALSE,          \* the body is the cursor scan of getAllMatching
   storeName |-> "",
   key |-> 0, query |-> NoQuery, count |-> Undefined,   \* the arguments
   includeKeys |-> FALSE,
   mode |-> "", scope |-> {},   \* of the native transaction
   txn |-> "none",          \* "active", "complete" or "aborted"
   txnError |-> "",         \* txn.error
   req |-> "none",          \* the body's request: "pending" or "done"
   cursorKey |-> UndefinedKey,  \* cursor.key
   cursorEnd |-> FALSE,     \* the request reported a null cursor
   results |-> <<>>,
   continues |-> 0,         \* calls of cursor.continue()
   doneCalls |-> 0,         \* calls of done()
   threw |-> FALSE,         \* the callback raised before returning
   working |-> <<>>,        \* the store as written by this transaction
   promise |-> Pending,     \* the promise transaction() returns
   result |-> Pending,      \* the promise the method returns to the caller
   first |-> NoEvent]       \* history: the first of done, complete, abort

WriteMethods == {"add", "put", "clear", "delete"}
PointMethods == {"get", "add", "put", "delete"}

\* transaction(storeNames, type, callback) once open() has returned: the
\* native transaction is created and the callback has issued its request.
Transaction(c, storeNames, type) ==
  [c EXCEPT !.scope = storeNames, !.mode = type,
            !.txn = "active", !.req = "pending"]

\* _call(method, storeName, type, ...args)
Call(c, method, storeName, type) ==
  Transaction([c EXCEPT !.primitive = method, !.storeName = storeName],
              {storeName}, type)

\* The wrapper installed for a native method.
Wrapped(c, method, storeName) == Call(c, method, storeName, ModeOf(method))

\* getAllMatching(storeName, {query, count, includeKeys})
GetAllMatching(c, storeName, query, count, includeKeys) ==
  Transaction([c EXCEPT !.scan = TRUE, !.storeName = storeName,
                        !.query = query, !.count = count,
                        !.includeKeys = includeKeys],
              {storeName}, "readonly")

\* The caller awaits each call: the next one is issued once the latest has
\* settled and the caller has taken its result.
CanIssue ==
  /\ _db # Null
  /\ cur.method = "none"

Residual(c) ==
  IF c.txn = "active"
    THEN [active |-> TRUE, name |-> c.storeName, working |-> c.working]
    ELSE NoTxn

\* The arguments a wrapped method is called with.
ArgsOf(method) ==
  CASE method \in PointMethods ->
         {[key |-> k, query |-> NoQuery, count |-> Undefined] : k \in PointKeys}
    [] method = "getKey" ->
         {[key |-> 0, query |-> q, count |-> Undefined] : q \in Ranges}
    [] method \in {"getAll", "getAllKeys"} ->
         {[key |-> 0, query |-> q, count |-> n] : q \in Queries, n \in Counts}
    [] OTHER -> {[key |-> 0, query |-> NoQuery, count |-> Undefined]}

Issue(c, method) ==
  /\ cur' = c
  /\ UNCHANGED prev
  /\ lastPut' = IF method \in WriteMethods THEN NoPut ELSE lastPut
  /\ UNCHANGED store
  /\ UNCHANGED connVars

\* A caller invokes a method that wraps the native one.
CallWrapped(method, storeName, args) ==
  /\ CanIssue
  /\ Issue(Wrapped([NoCall EXCEPT !.method = method, !.native = TRUE,
                                  !.key = args.key, !.query = args.query,
                                  !.count = args.count],
                   method, storeName), method)

\* A caller invokes the getAll() of the class.
CallGetAll(storeName, query, count) ==
  /\ CanIssue
  /\ Issue(GetAllMatching([NoCall EXCEPT !.method = "getAll"],
                          storeName, query, count, FALSE), "getAll")

\* A caller invokes the getAllKeys() of the class.
CallGetAllKeys(storeName, query, count) ==
  /\ CanIssue
  /\ Issue(GetAllMatching([NoCall EXCEPT !.method = "getAllKeys"],
                          storeName, query, count, TRUE), "getAllKeys")

\* A caller invokes the getKey() of the class, which calls
\* this.getAllKeys(storeName, query, 1): the wrapper of the native method
\* where the platform has one, the getAllKeys() of the class otherwise.
CallGetKey(storeName, query, nativeGetAllKeys) ==
  /\ CanIssue
  /\ Issue(IF nativeGetAllKeys
             THEN Wrapped([NoCall EXCEPT !.method = "getKey",
                                         !.query = query, !.count = 1],
                          "getAllKeys", storeName)
             ELSE GetAllMatching([NoCall EXCEPT !.method = "getKey"],
                                 storeName, query, 1, TRUE),
           "getKey")

\* A caller invokes transaction() with a body of its own, which may call
\* done(value) at any later time.
CallTransaction(storeName, type) ==
  /\ CanIssue
  /\ Issue([Transaction([NoCall EXCEPT !.method = "transaction",
                                       !.storeName = storeName],
                        {storeName}, type) EXCEPT !.req = "done"],
           "transaction")

\* ------------------------------------------------------------------------
\* The handlers of a transaction and of its requests
\* ------------------------------------------------------------------------
ExecutorThrowsUncaught(promise, error) == promise

\* `new Promise((resolve, reject) => {...})`: an exception that leaves the
\* executor is caught by the Promise constructor, which rejects with it.
ExecutorThrows(promise, error) == SettleP(promise, Rejected(error))

OnAbortIgnored(promise, error) == promise

\* `txn.onabort = () => reject(txn.error)`
OnAbortSettle(promise, error) == SettleP(promise, Rejected(error))

OnCompleteOverwrites(promise) == ResolvedUndefined

\* `txn.oncomplete = () => resolve()`
OnCompleteSettle(promise) == SettleP(promise, ResolvedUndefined)

\* `(value) => resolve(value)`, the done function handed to the callback
DoneSettle(promise, value) == SettleP(promise, value)

ReachedCountOffByOne(count, length) ==
  count # Undefined /\ count # 0 /\ length > count

\* `count && results.length >= count`
ReachedCount(count, length) ==
  count # Undefined /\ count # 0 /\ length >= count

AppendedKey(includeKeys, key, value) == IF includeKeys THEN CursorObject ELSE key

\* `includeKeys ? cursor : cursor.value`
Appended(includeKeys, key, value) ==
  IF includeKeys THEN CursorObject ELSE value

EntryKeyUndefined(entry, cursorKey) == UndefinedKey

\* `entry.key` of an entry of the results: the entry is the cursor object,
\* whose key is the one the cursor has when it is read.
EntryKey(entry, cursorKey) ==
  IF entry = CursorObject THEN cursorKey ELSE UndefinedKey

\* `entries.map((entry) => entry.key)`
MapKeys(entries, cursorKey) ==
  [i \in 1..Len(entries) |-> EntryKey(entries[i], cursorKey)]

ValueOrUndefined(v) ==
  IF v = Absent THEN ResolvedUndefined ELSE ResolvedScalar(v)

\* `(...)[0]`
First(a) == IF Len(a) = 0 THEN ResolvedUndefined ELSE ValueOrUndefined(a[1])

\* What the method hands to its caller once transaction() has settled:
\* getAllKeys() and getKey() of the class post-process the value.
Deliver(c) ==
  IF c.promise.state # "resolved" \/ c.native THEN c.promise
  ELSE CASE c.method = "getAllKeys" ->
              ResolvedArray(MapKeys(c.promise.val, c.cursorKey))
         [] c.method = "getKey" ->
              First(IF c.scan THEN MapKeys(c.promise.val, c.cursorKey)
                    ELSE c.promise.val)
         [] OTHER -> c.promise

Settled(c) ==
  [c EXCEPT !.result = IF @.state = "pending" THEN Deliver(c) ELSE @]

FirstEvent(c, kind, outcome) ==
  IF c.first.kind = "none" THEN [kind |-> kind, outcome |-> outcome]
  ELSE c.first

\* The callback calls done(value).
DoneCall(c, value) ==
  Settled([c EXCEPT !.promise = DoneSettle(@, value),
                    !.doneCalls = @ + 1,
                    !.first = FirstEvent(c, "done", value)])

\* The abort event of the transaction.
AbortCall(c, error) ==
  Settled([c EXCEPT !.txn = "aborted", !.txnError = error, !.req = "done",
                    !.promise = OnAbortSettle(@, error),
                    !.first = FirstEvent(c, "abort", Rejected(error))])

\* `callback(txn, ...)` raises: the exception leaves the executor.
ThrowCall(c, error) ==
  Settled([c EXCEPT !.threw = TRUE,
                    !.promise = ExecutorThrows(@, error),
                    !.first = FirstEvent(c, "throw", Rejected(error))])

\* The complete event of the transaction.
CompleteCall(c) ==
  Settled([c EXCEPT !.txn = "complete",
                    !.promise = OnCompleteSettle(@),
                    !.first = FirstEvent(c, "complete", ResolvedUndefined)])

\* `objStore[method].apply(objStore, args)`: the result of the request ...
NativeResult(primitive, content, c) ==
  CASE primitive = "get" -> ValueOrUndefined(content[c.key])
    [] primitive = "count" ->
         ResolvedScalar(Cardinality({k \in Keys : content[k] # Absent}))
    [] primitive = "getKey" -> ValueOrUndefined(NextKey(content, c.query, 0))
    [] primitive = "getAll" ->
         ResolvedArray(NativeGetAll(content, c.query, c.count))
    [] primitive = "getAllKeys" ->
         ResolvedArray(NativeGetAllKeys(content, c.query, c.count))
    [] primitive \in {"add", "put"} -> ResolvedScalar(c.key)
    [] OTHER -> ResolvedUndefined

\* ... what it writes (<<>> when it writes nothing) ...
NativeEffect(primitive, content, c) ==
  CASE primitive \in {"add", "put"} ->
         [content EXCEPT ![c.key] = NewValue(c.key)]
    [] primitive = "delete" -> [content EXCEPT ![c.key] = Absent]
    [] primitive = "clear" -> EmptyContent
    [] OTHER -> <<>>

\* ... and whether it fails: add() of a key that has a record.
RequestFails(primitive, content, c) ==
  primitive = "add" /\ content[c.key] # Absent

Commit(st, name, working) ==
  IF working = <<>> THEN st ELSE [st EXCEPT ![name] = working]

\* The engine runs the transactions of one connection over the same store
\* one after the other.
Running == cur.txn = "active" /\ ~prev.active

\* `request.onsuccess = () => done(request.result)` in _call
RequestSuccess ==
  /\ Running
  /\ cur.req = "pending"
  /\ ~cur.scan
  /\ ~RequestFails(cur.primitive, store[cur.storeName], cur)
  /\ LET content == store[cur.storeName]
         c == DoneCall([cur EXCEPT !.req = "done",
                                   !.working = NativeEffect(cur.primitive,
                                                            content, cur)],
                       NativeResult(cur.primitive, content, cur))
     IN /\ cur' = c
        /\ lastPut' = IF cur.primitive = "put" /\ c.result.state = "resolved"
                        THEN [name |-> cur.storeName, key |-> cur.key,
                              value |-> NewValue(cur.key)]
                        ELSE lastPut
  /\ UNCHANGED <<store, prev>>
  /\ UNCHANGED connVars

\* The request of _call fails: no handler takes the error event, and the
\* transaction aborts with the error of the request.
RequestError ==
  /\ Running
  /\ cur.req = "pending"
  /\ ~cur.scan
  /\ RequestFails(cur.primitive, store[cur.storeName], cur)
  /\ cur' = AbortCall(cur, "ConstraintError")
  /\ UNCHANGED <<store, prev, lastPut>>
  /\ UNCHANGED connVars

\* `request.onsuccess` of the cursor request in getAllMatching.  The engine
\* has moved the cursor to the next record, or found none: then the request
\* has a null result and the cursor is left without a key, or with the key
\* it had.
CursorSuccess ==
  /\ Running
  /\ cur.req = "pending"
  /\ cur.scan
  /\ LET content == store[cur.storeName]
         k == NextKey(content, cur.query, cur.cursorKey)
     IN IF k # UndefinedKey
          THEN LET results == Append(cur.results,
                                     Appended(cur.includeKeys, k, content[k]))
                   c == [cur EXCEPT !.cursorKey = k, !.results = results]
               IN cur' = IF ReachedCount(cur.count, Len(results))
                           THEN DoneCall([c EXCEPT !.req = "done"],
                                         ResolvedArray(results))
                           ELSE [c EXCEPT !.continues = @ + 1]
          ELSE \E endKey \in {UndefinedKey, cur.cursorKey} :
                 cur' = DoneCall([cur EXCEPT !.cursorEnd = TRUE,
                                             !.cursorKey = endKey,
                                             !.req = "done"],
                                 ResolvedArray(cur.results))
  /\ UNCHANGED <<store, prev, lastPut>>
  /\ UNCHANGED connVars

DoneValues == {1, 2}

\* The body of a caller's own transaction() calls done(value).
BodyDone(value) ==
  /\ cur.method = "transaction"
  /\ cur.doneCalls < MaxDone
  /\ cur' = DoneCall(cur, ResolvedScalar(value))
  /\ UNCHANGED <<store, prev, lastPut>>
  /\ UNCHANGED connVars

\* A caller invokes transaction() with a body that raises synchronously,
\* having first written a record (partial) or nothing; the requests it made
\* have no handler.
CallTransactionThrows(storeName, type, partial) ==
  /\ CanIssue
  /\ partial => type = "readwrite"
  /\ LET c == [Transaction([NoCall EXCEPT !.method = "transaction",
                                          !.storeName = storeName,
                                          !.key = MaxPointKey],
                           {storeName}, type) EXCEPT !.req = "done"]
     IN Issue(ThrowCall([c EXCEPT !.working =
                           IF partial
                             THEN NativeEffect("put", store[storeName], c)
                             ELSE <<>>],
                        "BodyError"),
              "transaction")

\* The transaction commits once it has no request left.
TxnComplete ==
  /\ Running
  /\ cur.req = "done"
  /\ cur' = CompleteCall(cur)
  /\ store' = Commit(store, cur.storeName, cur.working)
  /\ UNCHANGED <<prev, lastPut>>
  /\ UNCHANGED connVars

AbortErrors == {"AbortError", "QuotaExceededError"}

\* The engine aborts the transaction.
TxnAbort(error) ==
  /\ cur.txn = "active"
  /\ cur' = AbortCall(cur, error)
  /\ UNCHANGED <<store, prev, lastPut>>
  /\ UNCHANGED connVars

\* The caller's await of the settled call returns; the transaction of the
\* call may still be unfinished.
Await ==
  /\ cur.method # "none"
  /\ cur.result.state # "pending"
  /\ ~prev.active
  /\ prev' = Residual(cur)
  /\ cur' = NoCall
  /\ UNCHANGED <<store, lastPut>>
  /\ UNCHANGED connVars

\* The transaction of the previous call commits, or is aborted.
PrevComplete ==
  /\ prev.active
  /\ store' = Commit(store, prev.name, prev.working)
  /\ prev' = NoTxn
  /\ UNCHANGED <<cur, lastPut>>
  /\ UNCHANGED connVars

PrevAbort ==
  /\ prev.active
  /\ prev' = NoTxn
  /\ UNCHANGED <<store, cur, lastPut>>
  /\ UNCHANGED connVars

\* ------------------------------------------------------------------------
\* The connection lifecycle
\* ------------------------------------------------------------------------
Init ==
  /\ _db = Null
  /\ attempts = <<>>
  /\ pendingOps = 0
  /\ lastTxn = "none"
  /\ lastCall = "other"
  /\ onversionchangeOverride \in BOOLEAN
  /\ onupgradeneededSupplied \in BOOLEAN
  /\ overrideCalls = FALSE
  /\ store = [n \in StoreNames |-> EmptyContent]
  /\ cur = NoCall
  /\ prev = NoTxn
  /\ lastPut = NoPut

Next ==
  \/ CallOpen
  \/ CallOp
  \/ TxnContinue
  \/ \E a \in DOMAIN attempts : TimerFires(a)
  \/ \E a \in DOMAIN attempts : OnError(a)
  \/ \E a \in DOMAIN attempts : OnUpgradeNeeded(a)
  \/ \E a \in DOMAIN attempts : OnSuccess(a)
  \/ Close
  \/ \E c \in DOMAIN attempts : VersionChange(c)

Spec == Init /\ [][Next]_vars

\* Scheduling: a timer set with setTimeout fires, and the queue of resumed
\* continuations drains however often callers add to it (the event loop is
\* not starved), so the fairness of both is strong.  Nothing makes the
\* native open request produce an event.
TimerStep == \E a \in DOMAIN attempts : TimerFires(a)

ContinueAt(n) == pendingOps = n /\ TxnContinue

\* `new DBWrapper(name, version)`: the wrapper constructed without options.
InitDefault ==
  /\ Init
  /\ ~onversionchangeOverride
  /\ ~onupgradeneededSupplied

SpecLive ==
  /\ InitDefault
  /\ [][Next]_vars
  /\ \A n \in 1..MaxPending : SF_vars(ContinueAt(n))
  /\ SF_vars(TimerStep)

\* ------------------------------------------------------------------------
\* Transactions on an open connection
\* ------------------------------------------------------------------------
OpenAttempt ==
  [NewAttempt("open") EXCEPT !.req = "success", !.promise = "resolved",
                             !.conn = "open", !.handler = TRUE]

InitTxn ==
  /\ _db = 1
  /\ attempts = <<OpenAttempt>>
  /\ pendingOps = 0
  /\ lastTxn = "none"
  /\ lastCall = "other"
  /\ onversionchangeOverride = FALSE
  /\ onupgradeneededSupplied = FALSE
  /\ overrideCalls = FALSE
  /\ store \in [StoreNames -> Contents]
  /\ cur = NoCall
  /\ prev = NoTxn
  /\ lastPut = NoPut

NextTxn ==
  \/ \E m \in WrappedMethods, n \in StoreNames :
       \E args \in ArgsOf(m) : CallWrapped(m, n, args)
  \/ \E n \in StoreNames, q \in Queries, c \in Counts : CallGetAll(n, q, c)
  \/ \E n \in StoreNames, q \in Queries, c \in Counts : CallGetAllKeys(n, q, c)
  \/ \E n \in StoreNames, q \in Queries, b \in BOOLEAN : CallGetKey(n, q, b)
  \/ \E n \in StoreNames, t \in {"readonly", "readwrite"} :
       CallTransaction(n, t)
  \/ \E n \in StoreNames, t \in {"readonly", "readwrite"}, b \in BOOLEAN :
       CallTransactionThrows(n, t, b)
  \/ RequestSuccess
  \/ RequestError
  \/ CursorSuccess
  \/ \E v \in DoneValues : BodyDone(v)
  \/ TxnComplete
  \/ \E e \in AbortErrors : TxnAbort(e)
  \/ Await
  \/ PrevComplete
  \/ PrevAbort

SpecTxn == InitTxn /\ [][NextTxn]_vars

\* ------------------------------------------------------------------------
\* Properties of the connection lifecycle
\* ------------------------------------------------------------------------

\* C1: an open() attempt whose timer ran while the native request was still
\* pending rejects with the timeout error, and if the request succeeded
\* afterwards its connection is closed, is not held in _db, has no
\* versionchange handler and was never handed to the caller.
C1_TimedOutOpenNeverExposed ==
  \A a \in DOMAIN attempts :
    attempts[a].timerFirst =>
      /\ attempts[a].promise = "timeout"
      /\ _db # a
      /\ ~attempts[a].handler
      /\ attempts[a].conn # "open"
      /\ attempts[a].req = "success" => attempts[a].conn = "closed"

C1_Witness ==
  \E a \in DOMAIN attempts :
    /\ attempts[a].timerFirst
    /\ attempts[a].req = "success"
    /\ attempts[a].conn = "closed"

LiveConnections == {c \in DOMAIN attempts : attempts[c].conn = "open"}

\* C2: at most one native connection of the instance is live (opened and
\* not yet closed) in every reachable state.
C2_AtMostOneLiveConnection == Cardinality(LiveConnections) <= 1

\* C3: an open() call made while _db is non-null issues no native open
\* request, starts no timer and leaves _db referring to the same connection.
C3_OpenWhileOpenIsNoOp ==
  [][(_db # Null /\ lastCall' = "open")
       => (attempts' = attempts /\ _db' = _db)]_vars

C3_Witness == _db # Null /\ lastCall = "open"

\* C12: close() is idempotent.  When a connection is held it calls the
\* native close on that connection once, touches no other connection and
\* sets _db to null; when none is held it changes nothing and calls no native
\* close, so a second close() right after a first one is a stuttering step.
\* No connection ever receives more than one native close.
C12_CloseIdempotent ==
  [][lastCall' = "close"
       => /\ _db' = Null
          /\ IF _db # Null
               THEN /\ attempts'[_db].conn = "closed"
                    /\ attempts[_db].closes = 0
                    /\ attempts'[_db].closes = 1
                    /\ \A a \in DOMAIN attempts \ {_db} :
                         attempts'[a] = attempts[a]
               ELSE attempts' = attempts
          /\ Len(attempts') = Len(attempts)
          /\ UNCHANGED <<pendingOps, lastTxn, overrideCalls, txnVars>>]_vars

C12_Witness ==
  /\ lastCall = "close"
  /\ _db = Null
  /\ \E a \in DOMAIN attempts :
       attempts[a].handler /\ attempts[a].closes = 1

\* The open connections whose onversionchange property the wrapper has set:
\* the ones a versionchange event reaches a handler on.
Listening ==
  {c \in DOMAIN attempts : attempts[c].conn = "open" /\ attempts[c].handler}

\* C13: a versionchange event delivered to the connection the wrapper holds
\* (the only connection listening) closes that connection and nulls _db when
\* no override was supplied, after which an operation issues a fresh native
\* open request; with an override, the override is invoked and the wrapper
\* neither closes the connection nor forgets it.
C13_VersionChange ==
  /\ [][(lastCall' = "versionchange" /\ Listening = {_db})
          => IF onversionchangeOverride
               THEN /\ overrideCalls'
                    /\ _db' = _db
                    /\ attempts' = attempts
               ELSE /\ _db' = Null
                    /\ attempts'[_db].conn = "closed"
                    /\ attempts'[_db].closes = 1
                    /\ overrideCalls' = overrideCalls]_vars
  /\ [][(_db = Null /\ CallOp)
          => /\ Len(attempts') = Len(attempts) + 1
             /\ attempts'[Len(attempts')].req = "pending"]_vars

C13_Witness ==
  /\ lastCall = "versionchange"
  /\ ~onversionchangeOverride
  /\ _db = Null
  /\ Listening = {}
  /\ \E a \in DOMAIN attempts :
       attempts[a].handler /\ attempts[a].closes = 1

\* C16: the onupgradeneeded callback of the caller runs only for an upgrade
\* signal that arrives before the timer of its attempt fired.  A signal that
\* arrives after the timer fired runs no callback: the upgrade transaction
\* is aborted and the handle of the request closed, once; _db is left as it
\* was, and the connection of that attempt is never held in _db.
C16_UpgradeOnlyBeforeTimeout ==
  /\ [][\A a \in DOMAIN attempts :
           (attempts[a].upgrade = "none" /\ attempts'[a].upgrade # "none")
             => IF attempts[a].openRequestTimedOut
                  THEN /\ attempts'[a].upgrade = "aborted"
                       /\ attempts'[a].conn = "closed"
                       /\ attempts'[a].closes = 1
                       /\ _db' = _db
                  ELSE /\ attempts'[a].upgrade =
                            IF onupgradeneededSupplied THEN "callback"
                                                       ELSE "skipped"
                       /\ attempts'[a].conn = attempts[a].conn
                       /\ attempts'[a].closes = 0]_vars
  /\ [](\A a \in DOMAIN attempts :
          attempts[a].upgrade = "aborted"
            => /\ _db # a
               /\ attempts[a].req # "success"
               /\ ~attempts[a].handler
               /\ attempts[a].promise = "timeout")

C16_Witness ==
  /\ onupgradeneededSupplied
  /\ \E a \in DOMAIN attempts :
       /\ attempts[a].upgrade = "aborted"
       /\ attempts[a].req = "error"

\* C17: the timer of an attempt that has already succeeded or errored still
\* fires, and then changes nothing but its own flag: the outcome the caller
\* got, _db, the connection of the attempt and every other attempt stay as
\* they were.  Whether onsuccess keeps a connection depends on the flag of its
\* own attempt only: a request that succeeds before its own timer fired
\* yields an open connection whatever timers of other attempts have fired.
C17_LateTimerIsInert ==
  /\ [][\A a \in DOMAIN attempts :
           (~attempts[a].openRequestTimedOut
              /\ attempts'[a].openRequestTimedOut
              /\ attempts[a].req \in {"success", "error"})
             => /\ attempts'[a].promise = attempts[a].promise
                /\ attempts'[a].conn = attempts[a].conn
                /\ attempts'[a].closes = attempts[a].closes
                /\ _db' = _db
                /\ \A b \in DOMAIN attempts \ {a} :
                     attempts'[b] = attempts[b]]_vars
  /\ [][\A a \in DOMAIN attempts :
           (attempts[a].req = "pending" /\ attempts'[a].req = "success")
             => attempts'[a].conn =
                  IF attempts[a].openRequestTimedOut THEN "closed"
                                                     ELSE "open"]_vars

C17_Witness ==
  \E a \in DOMAIN attempts, b \in DOMAIN attempts :
    /\ a # b
    /\ attempts[a].openRequestTimedOut
    /\ attempts[a].req = "success"
    /\ attempts[a].promise = "resolved"
    /\ attempts[a].conn = "open"
    /\ ~attempts[b].openRequestTimedOut
    /\ attempts[b].conn = "open"
    /\ _db = b

\* C18: whenever transaction() calls `this._db.transaction(...)`, _db refers
\* to a connection, and that connection is open: the call never finds _db
\* null, whatever ran between the `await this.open()` and the call.
C18_TransactionHasConnection ==
  /\ lastTxn # "TypeError"
  /\ _db # Null => attempts[_db].conn = "open"

\* C20: after close() has returned _db is null until an open() made after
\* that close() succeeds.  In particular the step that follows a close(),
\* before which no such open() can have succeeded, leaves _db null: no
\* attempt that was in flight when close() ran makes the wrapper Open.
C20_ClosedUntilReopened ==
  [][lastCall = "close" => _db' = Null]_vars

\* C11: every open() call that issued a native open request settles, even
\* when the request never produces an event: it resolves, or rejects with
\* the native error or the timeout error; its outcome is decided once, and
\* the step that decides it issues no further native open request (no retry).
C11_OpenSettles ==
  /\ \A a \in 1..MaxAttempts :
       (a \in DOMAIN attempts /\ attempts[a].promise = "pending")
         ~> (a \in DOMAIN attempts
             /\ attempts[a].promise \in {"resolved", "error", "timeout"})
  /\ [][\A a \in DOMAIN attempts :
           attempts[a].promise # attempts'[a].promise
             => /\ attempts[a].promise = "pending"
                /\ Len(attempts') = Len(attempts)]_vars

C11_Witness ==
  \E a \in DOMAIN attempts :
    /\ attempts[a].req = "pending"
    /\ attempts[a].upgrade = "none"
    /\ attempts[a].promise = "timeout"

\* ------------------------------------------------------------------------
\* Properties of transactions, wrapped methods and scans
\* ------------------------------------------------------------------------

\* C4: the promise of transaction() settles once, with the outcome of the
\* first of done(value), complete and abort: the value of the done, undefined
\* for a complete, the error of the transaction for an abort; no later event
\* changes it.
C4_FirstEventSettles ==
  /\ cur.first.kind = "none" => cur.promise = Pending
  /\ cur.first.kind # "none" => cur.promise = cur.first.outcome
  /\ cur.first.kind = "done" => cur.promise.state = "resolved"
  /\ cur.first.kind = "complete" => cur.promise = ResolvedUndefined
  /\ cur.first.kind = "abort" => cur.promise = Rejected(cur.txnError)

C4_Witness ==
  /\ cur.method = "transaction"
  /\ cur.first.kind = "abort"
  /\ cur.doneCalls > 0

\* C5: when the engine aborts the transaction of a scan before the scan
\* called done, the scan rejects with the error of the transaction and the
\* caller is not given the partial results.
C5_AbortedScanRejects ==
  (cur.scan /\ cur.txn = "aborted" /\ cur.doneCalls = 0) =>
    /\ cur.promise = Rejected(cur.txnError)
    /\ cur.result = Rejected(cur.txnError)

C5_Witness ==
  /\ cur.scan
  /\ cur.txn = "aborted"
  /\ cur.doneCalls = 0
  /\ Len(cur.results) > 0
  /\ cur.result.state = "rejected"

\* The scan has stopped: the results have reached the count, or the cursor
\* reported exhaustion.
ScanStopped ==
  \/ cur.cursorEnd
  \/ cur.count # Undefined /\ Len(cur.results) >= cur.count

ScanBounded ==
  /\ Len(cur.results) <= cur.count
  /\ cur.continues <= cur.count
  /\ cur.result.state = "resolved" => Len(cur.result.val) <= cur.count

\* C6 as stated: for every count N the scan appends and returns at most N
\* entries, advances at most N times, never after it has stopped, and calls
\* done exactly once.
C6_AsStated ==
  /\ [](cur.scan /\ cur.count # Undefined =>
          /\ ScanBounded
          /\ cur.doneCalls <= 1
          /\ cur.txn = "complete" => cur.doneCalls = 1)
  /\ [][(cur.scan /\ cur.count # Undefined /\ ScanStopped)
          => cur'.continues <= cur.continues]_vars

\* C6, amended: for every count N >= 1 the scan appends and returns at most
\* N entries and advances at most N times; it never advances after the
\* results reached N or after the cursor reported exhaustion; it calls done
\* at most once, and exactly once when its transaction completes.
C6_BoundedScan ==
  /\ [](cur.scan /\ cur.count # Undefined /\ cur.count >= 1 =>
          /\ ScanBounded
          /\ cur.doneCalls <= 1
          /\ cur.txn = "complete" => cur.doneCalls = 1)
  /\ [][(cur.scan /\ cur.count # Undefined /\ cur.count >= 1 /\ ScanStopped)
          => cur'.continues <= cur.continues]_vars

C6_Witness ==
  /\ cur.scan
  /\ cur.count # Undefined /\ cur.count >= 2
  /\ Len(cur.results) = cur.count
  /\ cur.doneCalls = 1
  /\ Len(KeysFrom(store[cur.storeName], cur.query, 1)) > cur.count

\* C7: the getAll() of the class resolves with what the native getAll
\* returns: the values of the records in the range in ascending key order,
\* cut to the first count when count >= 1.
C7_GetAllMatchesNative ==
  (cur.method = "getAll" /\ ~cur.native /\ cur.result.state = "resolved") =>
    cur.result = ResolvedArray(NativeGetAll(store[cur.storeName],
                                            cur.query, cur.count))

C7_Witness ==
  /\ cur.method = "getAll" /\ ~cur.native
  /\ cur.result.state = "resolved"
  /\ cur.count = 2
  /\ Len(cur.result.val) = 2
  /\ Len(KeysFrom(store[cur.storeName], cur.query, 1)) > 2

\* C8: the getAllKeys() of the class resolves with the keys of the records
\* in the range in cursor order, the i-th key being that of the record whose
\* value is the i-th of getAll.
C8_GetAllKeysMatchesNative ==
  (cur.method = "getAllKeys" /\ ~cur.native
     /\ cur.result.state = "resolved") =>
    cur.result = ResolvedArray(NativeGetAllKeys(store[cur.storeName],
                                                cur.query, cur.count))

\* C14: the getKey() of the class resolves with the smallest key that has a
\* record in the range, and with undefined when the range holds no record;
\* its scan never advances the cursor and calls done at most once.
C14_GetKeyFirstMatch ==
  (cur.method = "getKey" /\ cur.scan) =>
    /\ cur.continues = 0
    /\ cur.doneCalls <= 1
    /\ cur.result.state = "resolved" =>
         LET ks == KeysFrom(store[cur.storeName], cur.query, 1)
         IN cur.result = IF ks = <<>> THEN ResolvedUndefined
                         ELSE ResolvedScalar(ks[1])

C14_Witness ==
  /\ cur.method = "getKey" /\ cur.scan
  /\ cur.query = [lo |-> 2, hi |-> MaxKey]
  /\ store[cur.storeName][1] # Absent
  /\ store[cur.storeName][2] # Absent
  /\ store[cur.storeName][3] # Absent
  /\ cur.result = ResolvedScalar(2)
  /\ cur.txn = "complete"

C19_ResolvedWriteCommits ==
  (cur.method \in WriteMethods /\ cur.result.state = "resolved")
    => cur.txn # "aborted"

ReadMethods == {"get", "count", "getKey", "getAll", "getAllKeys"}

\* C9: add, put, clear and delete run their native primitive in a readwrite
\* transaction, and get, count, getKey, getAll and getAllKeys (wrapped or
\* of the class) run in a readonly one, over exactly the store named.
C9_ModeByMethod ==
  cur.txn # "none" =>
    /\ cur.method \in WriteMethods =>
         /\ cur.mode = "readwrite"
         /\ cur.primitive = cur.method
         /\ cur.scope = {cur.storeName}
    /\ cur.method \in ReadMethods =>
         /\ cur.mode = "readonly"
         /\ cur.scope = {cur.storeName}

C9_Witness ==
  /\ cur.method = "put"
  /\ cur.req = "done"
  /\ cur.working # <<>>
  /\ cur.mode = "readwrite"

\* C10: a get issued after a put of the same key has resolved, with no
\* write issued in between, resolves with the value the put wrote.
C10_ReadAfterWrite ==
  (cur.method = "get" /\ cur.result.state = "resolved"
     /\ lastPut # NoPut
     /\ lastPut.name = cur.storeName /\ lastPut.key = cur.key) =>
    cur.result = ResolvedScalar(lastPut.value)
====
